---- MODULE Spec2Model ----
(***************************************************************************)
(* Model of the back end of the Airbnb competitive-analysis service        *)
(* (class RealDataAirbnbBackend): the three document collections, the      *)
(* request handlers, the scheduled jobs and the snapshot diff / alert      *)
(* engine trackRealChangesAndGenerateAlerts.                               *)
(*                                                                         *)
(* Conventions                                                             *)
(*  - a price is in cents (10050 is $100.50), a market average price, which *)
(*    the program rounds, in whole dollars; ratings are in tenths (47 is    *)
(*    4.7); time is in hours;                                               *)
(*  - a nullable value is a set with at most one element ({} is null);     *)
(*  - an array is a sequence; a collection is a set of documents, each     *)
(*    with its own _id.                                                    *)
(***************************************************************************)
EXTENDS Integers, Sequences, FiniteSets, TLC

VARIABLES
    analyses,     \* collection ListingAnalysis
    alerts,       \* collection Alert
    tracking,     \* collection CompetitorTracking
    isConnected,  \* RealDataAirbnbBackend.isConnected
    now,          \* the wall clock (Date.now()), in hours
    nextId,       \* source of fresh document _ids
    started,      \* number of calls of performRealAnalysis so far
    req,          \* per handler: its position and its local variables
    find,         \* one call of findRealCompetitors: position and locals
    recs,         \* the three recommendation branches of one analysis
    metrics,      \* one evaluation of calculateRealMarketMetrics
    mark,         \* the last mark-read request and its answer
    cleanup,      \* one run of the daily cleanup: position and loaded records
    mcp           \* initializeMCP: the calls in progress, the processes and the client

\* the calls that are modelled step by step on their own
subVars == <<find, recs, metrics, mark, cleanup, mcp>>

vars == <<analyses, alerts, tracking, isConnected, now, nextId, started, req,
          find, recs,
          metrics,
          mark,
          cleanup,
          mcp>>

---------------------------------------------------------------------------
(* Bounds of the model *)

MaxAnalyses == 2
Horizon == 730

(* Constants of the program *)

PriceThreshold == 5
RatingThresholdTenths == 1
MarketThreshold == 10
HighImpactPercent == 15
MediumImpactPercent == 8
MarketHighPercent == 20
CacheHours == 6
UpdateHours == 6
AlertRetentionHours == 30 * 24
HistoryKeep == 100

ListingIds == {"L1", "L2"}
CompetitorIds == {"c1", "c2"}

\* The request handlers (two HTTP requests may overlap) and the cron callback.
Requests == {"r1", "r2"}
Cron == "cron"
Procs == Requests \cup {Cron}

---------------------------------------------------------------------------
(* Arithmetic of the host language *)

Abs(x) == IF x < 0 THEN -x ELSE x

\* Math.round(n / d) for d > 0: the nearest integer, a half rounding up
\* (Math.round(-12.5) is -12, Math.round(12.5) is 13).
RoundDiv(n, d) == (2 * n + d) \div (2 * d)

\* The tenths k for which the double (k+1)/10 - k/10 is below the double 0.1
\* (4.8 - 4.7 is 0.09999999999999964); every other pair of distinct tenths
\* differs by at least 0.1 as doubles.
InexactTenths == {2, 4, 5, 6, 8, 9, 11, 13, 16, 18, 22, 27, 32, 37, 40, 42, 44,
                  45, 47, 49}

\* Math.abs(a - b) >= 0.1 on doubles, for ratings a, b given in tenths.
DoubleDiffAtLeastTenth(a, b) ==
    LET lo == IF a < b THEN a ELSE b
        hi == IF a < b THEN b ELSE a
    IN  \/ hi - lo > RatingThresholdTenths
        \/ hi - lo = RatingThresholdTenths /\ lo \notin InexactTenths

\* The prices p, among those the provider data below holds, for which the
\* double p + 5 dollars minus the double p is below 5 (516.93 - 511.93 is
\* 4.999999999999943); prices in whole dollars subtract exactly.
InexactFiveApart == {51193}

\* Math.abs(a - b) >= 5 on doubles, for prices a, b given in cents.
DoubleDiffAtLeastFive(a, b) ==
    LET lo == IF a < b THEN a ELSE b
        hi == IF a < b THEN b ELSE a
    IN  \/ hi - lo > PriceThreshold * 100
        \/ hi - lo = PriceThreshold * 100 /\ lo \notin InexactFiveApart

RECURSIVE SumPrices(_)
SumPrices(comps) ==
    IF comps = <<>> THEN 0 ELSE Head(comps).price + SumPrices(Tail(comps))

\* calculateRealMarketMetrics(...).averagePrice
AveragePrice(comps) ==
    IF Len(comps) = 0 THEN 0
    ELSE LET prices == SelectSeq(comps, LAMBDA c : c.price > 0)
         IN  RoundDiv(SumPrices(prices), 100 * Len(prices))

---------------------------------------------------------------------------
(* The diff / alert engine: the alerts of one run *)

Ids(comps) == {comps[i].id : i \in 1..Len(comps)}

\* Array.prototype.find(c => c.id === id): the first match, or null.
FindById(comps, id) ==
    LET hits == {i \in 1..Len(comps) : comps[i].id = id}
    IN  IF hits = {} THEN {}
        ELSE {comps[CHOOSE i \in hits : \A j \in hits : i <= j]}

AlertDoc(listingId, type, impact, competitorId, oldValue, newValue, added, pct) ==
    [listingId |-> listingId, type |-> type, impact |-> impact,
     competitorId |-> competitorId, oldValue |-> oldValue, newValue |-> newValue,
     addedAmenities |-> added, changePercentage |-> pct]

PriceChanged(oldComp, newComp) ==
    /\ oldComp.price # 0
    /\ DoubleDiffAtLeastFive(oldComp.price, newComp.price)

ChangePercent(oldValue, newValue) ==
    RoundDiv((newValue - oldValue) * 100, oldValue)

\* (variant: the bucket limits are inclusive)
PriceImpactInclusive(changePercent) ==
    IF Abs(changePercent) >= HighImpactPercent THEN "high"
    ELSE IF Abs(changePercent) >= MediumImpactPercent THEN "medium"
    ELSE "low"

PriceImpact(changePercent) ==
    IF Abs(changePercent) > HighImpactPercent THEN "high"
    ELSE IF Abs(changePercent) > MediumImpactPercent THEN "medium"
    ELSE "low"

PriceChangeAlert(listingId, oldComp, newComp) ==
    LET changePercent == ChangePercent(oldComp.price, newComp.price)
    IN  AlertDoc(listingId, "price_change", PriceImpact(changePercent),
                 {newComp.id}, {oldComp.price}, {newComp.price}, {},
                 {changePercent})

RatingChanged(oldComp, newComp) ==
    /\ oldComp.rating # 0
    /\ DoubleDiffAtLeastTenth(oldComp.rating, newComp.rating)

RatingChangeAlert(listingId, oldComp, newComp) ==
    AlertDoc(listingId, "rating_change", "medium", {newComp.id},
             {oldComp.rating}, {newComp.rating}, {}, {})

\* oldComp?.amenities || [] and the filter of the new amenities against it
AddedAmenities(oldCompOpt, newComp) ==
    LET oldAmenities == IF oldCompOpt = {} THEN {}
                        ELSE (CHOOSE c \in oldCompOpt : TRUE).amenities
    IN  newComp.amenities \ oldAmenities

AmenityAlert(listingId, newComp, added) ==
    AlertDoc(listingId, "amenity_update", "medium", {newComp.id}, {}, {},
             added, {})

\* One iteration of the loop over newAnalysis.competitors.
CompetitorAlerts(listingId, prevComps, newComp) ==
    LET oldCompOpt == FindById(prevComps, newComp.id)
        oldComp == CHOOSE c \in oldCompOpt : TRUE
        added == AddedAmenities(oldCompOpt, newComp)
    IN  (IF oldCompOpt # {} /\ PriceChanged(oldComp, newComp)
         THEN <<PriceChangeAlert(listingId, oldComp, newComp)>> ELSE <<>>)
        \o
        (IF oldCompOpt # {} /\ RatingChanged(oldComp, newComp)
         THEN <<RatingChangeAlert(listingId, oldComp, newComp)>> ELSE <<>>)
        \o
        (IF added # {}
         THEN <<AmenityAlert(listingId, newComp, added)>> ELSE <<>>)

RECURSIVE ChangeAlerts(_, _, _)
ChangeAlerts(listingId, prevComps, newComps) ==
    IF newComps = <<>> THEN <<>>
    ELSE CompetitorAlerts(listingId, prevComps, Head(newComps))
         \o ChangeAlerts(listingId, prevComps, Tail(newComps))

\* (variant: the filter keeps the competitors the previous analysis had)
IsKnownCompetitor(prevComps, comp) == comp.id \in Ids(prevComps)

IsNewCompetitor(prevComps, comp) == comp.id \notin Ids(prevComps)

\* (variant: the alert names the listing instead of the competitor)
NewCompetitorAlertOfListing(listingId, newComp) ==
    AlertDoc(listingId, "new_competitor", "medium", {listingId}, {},
             {newComp.price}, {}, {})

NewCompetitorAlert(listingId, newComp) ==
    AlertDoc(listingId, "new_competitor", "medium", {newComp.id}, {},
             {newComp.price}, {}, {})

NewCompetitorAlerts(listingId, prevComps, newComps) ==
    LET newCompetitors ==
            SelectSeq(newComps, LAMBDA c : IsNewCompetitor(prevComps, c))
    IN  [i \in 1..Len(newCompetitors) |->
            NewCompetitorAlert(listingId, newCompetitors[i])]

\* (variant: a move of exactly the threshold counts)
MarketMovedInclusive(prevAvgPrice, currentAvgPrice) ==
    Abs(currentAvgPrice - prevAvgPrice) >= MarketThreshold

MarketMoved(prevAvgPrice, currentAvgPrice) ==
    Abs(currentAvgPrice - prevAvgPrice) > MarketThreshold

MarketImpact(changePercent) ==
    IF Abs(changePercent) > MarketHighPercent THEN "high" ELSE "opportunity"

MarketTrendAlert(listingId, prevAvgPrice, currentAvgPrice) ==
    LET changePercent == ChangePercent(prevAvgPrice, currentAvgPrice)
    IN  AlertDoc(listingId, "market_trend", MarketImpact(changePercent), {},
                 {prevAvgPrice}, {currentAvgPrice}, {}, {changePercent})

MarketAlerts(listingId, prevAvgPrice, currentAvgPrice) ==
    IF MarketMoved(prevAvgPrice, currentAvgPrice)
    THEN <<MarketTrendAlert(listingId, prevAvgPrice, currentAvgPrice)>>
    ELSE <<>>

\* The array `alerts` of trackRealChangesAndGenerateAlerts, given the previous
\* stored analysis and the new one.
GenerateAlerts(listingId, prevAnalysis, newAnalysis) ==
    ChangeAlerts(listingId, prevAnalysis.competitors, newAnalysis.competitors)
    \o NewCompetitorAlerts(listingId, prevAnalysis.competitors,
                           newAnalysis.competitors)
    \o MarketAlerts(listingId, prevAnalysis.averagePrice,
                    newAnalysis.averagePrice)

---------------------------------------------------------------------------
(* Provider data the model draws from *)

Comp(id, price, rating, amenities) ==
    [id |-> id, price |-> price, rating |-> rating, amenities |-> amenities]

\* Competitor lists as findRealCompetitors returns them: non-empty, ids
\* pairwise distinct, every price above 0.
Lists(firsts, seconds) ==
    {<<a>> : a \in firsts} \cup {<<b>> : b \in seconds}
    \cup {<<a, b>> : a \in firsts, b \in seconds}

WidePrices == {10000, 10400, 10500, 12000, 51193, 51693, 200000, 200500}
WideRatings == {0, 46, 47, 48}
WideAmenities == {{}, {"wifi"}, {"wifi", "pool"}}

WideLists ==
    Lists({Comp("c1", p, r, a) :
              p \in WidePrices, r \in WideRatings, a \in WideAmenities},
          {Comp("c2", 10000, 47, {}), Comp("c2", 12000, 0, {"wifi"})})

NarrowLists ==
    {<<Comp("c1", 10000, 47, {})>>,
     <<Comp("c1", 13000, 47, {}), Comp("c2", 10000, 48, {})>>}

---------------------------------------------------------------------------
(* Documents and queries *)

\* The object `analysis` built by performRealAnalysis at time t.
Analysis(listingId, comps, t) ==
    [listingId |-> listingId, competitors |-> comps,
     averagePrice |-> AveragePrice(comps), analyzedAt |-> t,
     nextUpdateDue |-> t + UpdateHours]

StoredAnalysis(id, a) ==
    [_id |-> id, listingId |-> a.listingId, competitors |-> a.competitors,
     averagePrice |-> a.averagePrice, analyzedAt |-> a.analyzedAt,
     nextUpdateDue |-> a.nextUpdateDue]

StoredAlert(id, a, t) ==
    [_id |-> id, listingId |-> a.listingId, type |-> a.type,
     impact |-> a.impact, competitorId |-> a.competitorId,
     oldValue |-> a.oldValue, newValue |-> a.newValue,
     addedAmenities |-> a.addedAmenities,
     changePercentage |-> a.changePercentage, createdAt |-> t,
     isRead |-> FALSE]

Latest(docs) ==
    IF docs = {} THEN {}
    ELSE {CHOOSE d \in docs : \A e \in docs : e.analyzedAt <= d.analyzedAt}

Oldest(docs) ==
    IF docs = {} THEN {}
    ELSE {CHOOSE d \in docs : \A e \in docs : d._id <= e._id}

\* (variant: the query leaves out the listing id)
PreviousAnalysisOfAnyListing(listingId, t) ==
    Latest({d \in analyses : d.analyzedAt < t})

\* ListingAnalysis.findOne({listingId, analyzedAt: {$lt: t}})
\*     .sort({analyzedAt: -1})
PreviousAnalysis(listingId, t) ==
    Latest({d \in analyses : d.listingId = listingId /\ d.analyzedAt < t})

\* ListingAnalysis.findOne({listingId, analyzedAt: {$gte: now - 6 h}})
RecentAnalysis(listingId) ==
    {d \in analyses :
        d.listingId = listingId /\ d.analyzedAt >= now - CacheHours}

\* The documents a query {listingId} matches; an update takes the first.
Matching(listingId) == {d \in analyses : d.listingId = listingId}

\* ListingAnalysis.find({nextUpdateDue: {$lte: now}}), in insertion order,
\* as the listing ids the loop visits.
RECURSIVE InOrder(_)
InOrder(docs) ==
    IF docs = {} THEN <<>>
    ELSE LET d == CHOOSE d \in docs : \A e \in docs : d._id <= e._id
         IN  <<d.listingId>> \o InOrder(docs \ {d})

DueListings == InOrder({d \in analyses : d.nextUpdateDue <= now})

---------------------------------------------------------------------------
(* The recommendation functions *)

MarketPositions == {"below_market", "at_market", "above_market"}

\* Math.round(averagePrice * percent / 100) in whole dollars, for the average
\* of the positive competitor prices (given in cents)
RoundedShare(comps, percent) ==
    LET prices == SelectSeq(comps, LAMBDA c : c.price > 0)
    IN  RoundDiv(SumPrices(prices) * percent, Len(prices) * 100 * 100)

PriceRange(min, max, optimal) ==
    [min |-> min, max |-> max, optimal |-> optimal]

\* What the pricing completion may be: the call throws, the content is no
\* JSON, or it is a JSON object; of an object only the members the function
\* reads are kept, each present or absent.
PricingOutcomes ==
    {[kind |-> k, currentMarketPosition |-> {}, suggestedPriceRange |-> {}] :
        k \in {"throws", "malformed", "object"}}
    \cup
    {[kind |-> "object", currentMarketPosition |-> {p},
      suggestedPriceRange |-> {r}] :
        p \in {"at_market", "premium"},
        r \in {PriceRange({120}, {160}, {140}), PriceRange({120}, {}, {}),
               PriceRange({200}, {100}, {150})}}

\* generateRealPricingRecommendations, from the try block on
PricingRecommendations(currentPrice, comps, o) ==
    LET prices == SelectSeq(comps, LAMBDA c : c.price > 0)
        sum == SumPrices(prices)
        n == Len(prices)
    IN  IF o.kind = "object"
        THEN [currentMarketPosition |->
                  IF o.currentMarketPosition # {}
                  THEN CHOOSE p \in o.currentMarketPosition : TRUE
                  ELSE IF currentPrice * n * 10 < sum * 9 THEN "below_market"
                  ELSE IF currentPrice * n * 10 > sum * 11 THEN "above_market"
                  ELSE "at_market",
              suggestedPriceRange |->
                  IF o.suggestedPriceRange # {}
                  THEN CHOOSE r \in o.suggestedPriceRange : TRUE
                  ELSE PriceRange({RoundedShare(comps, 85)},
                                  {RoundedShare(comps, 115)},
                                  {RoundedShare(comps, 100)})]
        ELSE [currentMarketPosition |->
                  IF currentPrice * n < sum THEN "below_market"
                  ELSE "above_market",
              suggestedPriceRange |->
                  PriceRange({RoundedShare(comps, 90)},
                             {RoundedShare(comps, 110)},
                             {RoundedShare(comps, 100)})]

RECURSIVE AllAmenities(_)
AllAmenities(comps) ==
    IF comps = <<>> THEN {}
    ELSE Head(comps).amenities \cup AllAmenities(Tail(comps))

\* generateRealFeatureAnalysis (the amenities, without their counts)
FeatureAnalysis(userAmenities, comps) ==
    [userAmenities |-> userAmenities,
     competitorAmenities |-> AllAmenities(comps),
     missingAmenities |-> AllAmenities(comps) \ userAmenities,
     uniqueAmenities |-> userAmenities \ AllAmenities(comps)]

DescriptionFields ==
    {"currentDescription", "wordCount", "readabilityScore", "keywordAnalysis",
     "structureAnalysis", "suggestions", "optimizedDescription"}

\* What the description completion may be; of a JSON object the members it
\* has are kept.
DescriptionOutcomes ==
    {[kind |-> k, fields |-> {}] : k \in {"throws", "malformed", "object"}}
    \cup
    {[kind |-> "object", fields |-> f] :
        f \in {DescriptionFields, {"currentDescription", "suggestions"}}}

\* generateRealDescriptionAnalysis when no competitor description is longer
\* than 50 characters: the fixed analysis, without a call
PlainDescriptionAnalysis ==
    [fields |-> DescriptionFields, source |-> "no competitor descriptions"]

\* generateRealDescriptionAnalysis, from the try block on
DescriptionAnalysis(o) ==
    IF o.kind = "object"
    THEN [fields |-> o.fields, source |-> "completion"]
    ELSE [fields |-> DescriptionFields, source |-> "fallback"]

\* No analysis is at its recommendation step.
NoRecs ==
    [pc |-> "none", currentPrice |-> 0, userAmenities |-> {},
     competitors |-> <<>>, longDescriptions |-> 0, pricing |-> {},
     feature |-> {}, description |-> {}, order |-> <<>>, analysis |-> {}]

---------------------------------------------------------------------------
(* calculateRealMarketMetrics *)

\* A competitor record as far as the metrics read it: the price in cents,
\* the rating in tenths, and the amenities as the array extractAmenities
\* returns, which keeps the provider's entries one by one.
MetricsComp(price, rating, amenities) ==
    [price |-> price, rating |-> rating, amenities |-> amenities]

RECURSIVE Occurrences(_, _)
Occurrences(list, a) ==
    IF list = <<>> THEN 0
    ELSE (IF Head(list) = a THEN 1 ELSE 0) + Occurrences(Tail(list), a)

\* amenityCount[a] after the forEach over competitors.flatMap(c => c.amenities)
RECURSIVE AmenityCount(_, _)
AmenityCount(comps, a) ==
    IF comps = <<>> THEN 0
    ELSE Occurrences(Head(comps).amenities, a) + AmenityCount(Tail(comps), a)

AmenityNames(comps) ==
    UNION {{comps[i].amenities[j] : j \in 1..Len(comps[i].amenities)} :
              i \in 1..Len(comps)}

\* mostCommonAmenities (at most ten names occur here, so slice(0, 10) keeps
\* them all; their order is left out)
MostCommonAmenities(comps) ==
    {[amenity |-> a,
      percentage |-> RoundDiv(100 * AmenityCount(comps, a), Len(comps))] :
        a \in AmenityNames(comps)}

RECURSIVE SumRatings(_)
SumRatings(comps) ==
    IF comps = <<>> THEN 0 ELSE Head(comps).rating + SumRatings(Tail(comps))

\* Math.round(avgRating * 10) / 10 in tenths, where avgRating is the mean of
\* the ratings above 0; when there is none the mean is 0 / 0 and the result
\* is NaN, given here as no number at all
AverageRating(comps) ==
    LET ratings == SelectSeq(comps, LAMBDA c : c.rating > 0)
    IN  IF Len(ratings) = 0 THEN {}
        ELSE {RoundDiv(SumRatings(ratings), Len(ratings))}

\* Math.min(...prices) and Math.max(...prices) of the prices above 0
PriceRangeOf(comps) ==
    LET prices == {comps[i].price : i \in {j \in 1..Len(comps) :
                                              comps[j].price > 0}}
    IN  [min |-> CHOOSE p \in prices : \A q \in prices : p <= q,
         max |-> CHOOSE p \in prices : \A q \in prices : p >= q]

\* calculateRealMarketMetrics for a non-empty competitor list (marketTrends,
\* sentences for display, are left out)
MarketMetrics(comps) ==
    [totalCompetitorsAnalyzed |-> Len(comps),
     averagePrice |-> AveragePrice(comps),
     priceRange |-> PriceRangeOf(comps),
     averageRating |-> AverageRating(comps),
     mostCommonAmenities |-> MostCommonAmenities(comps)]

\* initializeMCP has not been called: no server process, no client.
NoMcp == [calls |-> {}, spawned |-> 0, pairs |-> 0, mcpClient |-> {}]

\* No daily cleanup is being looked at.
NoCleanup == [pc |-> "none", loaded |-> {}]

\* No mark-read request has been answered.
NoMark == [listingId |-> "none", alertIds |-> {}, modifiedCount |-> 0]

\* No evaluation of the metrics is being looked at.
NoMetrics == [pc |-> "none", competitors |-> <<>>, first |-> {}, second |-> {}]

---------------------------------------------------------------------------
(* findRealCompetitors, step by step *)

maxCompetitors == 8
maxAttempts == 3
BroaderSearchBelow == 3

coreVars ==
    <<analyses, alerts, tracking, isConnected, now, nextId, started, req>>

\* userListing.id, and the ids the provider's search may list
OwnId == "L1"
CandidateIds == {"k1", "k2", "k3", "k4", "k5", "k6", "k7", "k8", "k9"}

\* searchData.listings of a search that parses; "null" is an entry that is
\* no object (reading its id throws).
Pages ==
    {<<>>,
     <<"L1", "k1", "k2", "k3">>,
     <<"k1", "k2", "k3", "k4", "k5", "k6", "k7", "k8", "k9">>,
     <<"k7", "null", "k8">>}

\* What a call of airbnb_search may do.
SearchOutcomes ==
    {[kind |-> k, listings |-> <<>>] : k \in {"throws", "empty", "unparsable"}}
    \cup {[kind |-> "listings", listings |-> l] : l \in Pages}

\* What a call of airbnb_listing_details may do for a listing: throw, answer
\* without content, answer with content that does not parse, answer with a
\* record without a price ("unpriced"), answer with a priced record ("ok").
DetailOutcomes(id) ==
    IF id \in {"k1", "k3", "k7", "k8", "k9"}
    THEN {"ok", "throws", "empty", "unparsable", "unpriced"}
    ELSE {"ok"}

\* `unpaced` holds from a detail lookup on until a fixed delay has passed.
NotCalled ==
    [pc |-> "none", attempts |-> 0, competitors |-> <<>>, listings |-> <<>>,
     searches |-> 0, unpaced |-> FALSE]

\* while (competitors.length < maxCompetitors && attempts < maxAttempts)
LoopContinues(f) ==
    Len(f.competitors) < maxCompetitors /\ f.attempts < maxAttempts

\* attempts++; and the 2 s wait before a broader search
EndOfAttempt(f) ==
    LET n == f.attempts + 1
    IN  [f EXCEPT !.pc = "loop", !.attempts = n, !.listings = <<>>,
                  !.unpaced = IF Len(f.competitors) < BroaderSearchBelow
                                 /\ n < maxAttempts
                              THEN FALSE ELSE @]

\* (variant: a failed search is retried without being counted)
AttemptRetried(f) ==
    [f EXCEPT !.pc = "loop", !.listings = <<>>]

\* catch (error) { attempts++ } of the loop body, and the
\* attempts++; continue of a search result that does not parse
AttemptFailed(f) ==
    [f EXCEPT !.pc = "loop", !.attempts = @ + 1, !.listings = <<>>]

\* One iteration begins: the search call and what comes back.
SearchCompetitors ==
    /\ find.pc = "loop"
    /\ LoopContinues(find)
    /\ \E o \in SearchOutcomes :
          find' = LET f == [find EXCEPT !.searches = @ + 1]
                  IN  IF o.kind \in {"throws", "unparsable"}
                      THEN AttemptFailed(f)
                      ELSE [f EXCEPT !.pc = "listing",
                                     !.listings = o.listings]
    /\ UNCHANGED <<coreVars, recs, metrics, mark, cleanup, mcp>>

\* (variant: no listing of a search is passed over)
NoneSkipped(f, id) == FALSE

Skipped(f, id) ==
    id = OwnId \/ \E i \in 1..Len(f.competitors) : f.competitors[i].id = id

\* if (listing.id === userListing.id) continue;
\* if (competitors.find(c => c.id === listing.id)) continue;
SkipListing ==
    /\ find.pc = "listing"
    /\ find.listings # <<>>
    /\ Head(find.listings) # "null"
    /\ Skipped(find, Head(find.listings))
    /\ find' = [find EXCEPT !.listings = Tail(@)]
    /\ UNCHANGED <<coreVars, recs, metrics, mark, cleanup, mcp>>

\* listing.id of an entry that is no object: the TypeError leaves the for
\* loop and is caught by the catch of the loop body.
ListingThrows ==
    /\ find.pc = "listing"
    /\ find.listings # <<>>
    /\ Head(find.listings) = "null"
    /\ find' = AttemptFailed(find)
    /\ UNCHANGED <<coreVars, recs, metrics, mark, cleanup, mcp>>

\* a detail lookup is about to be issued
LookupDue(f) ==
    /\ f.pc = "listing"
    /\ f.listings # <<>>
    /\ Head(f.listings) # "null"
    /\ ~Skipped(f, Head(f.listings))

\* extractPrice(detailData.pricing || listing.pricing) of a record, in cents
DetailPrice(o) == IF o = "ok" THEN 10000 ELSE 0

\* The detail lookup of one listing, up to the end of the for-loop body; the
\* competitor is kept if (competitor.price && competitor.price > 0).
AfterLookup(f, id, o) ==
    IF o \in {"throws", "unparsable"}
    THEN [f EXCEPT !.listings = Tail(@), !.unpaced = TRUE]
    ELSE LET got == IF o # "empty" /\ DetailPrice(o) > 0
                    THEN Append(f.competitors,
                                [id |-> id, price |-> DetailPrice(o)])
                    ELSE f.competitors
         IN  [f EXCEPT !.competitors = got,
                       !.unpaced = FALSE,
                       !.listings = IF Len(got) >= maxCompetitors THEN <<>>
                                    ELSE Tail(@)]

LookupDetails ==
    /\ LookupDue(find)
    /\ \E o \in DetailOutcomes(Head(find.listings)) :
          find' = AfterLookup(find, Head(find.listings), o)
    /\ UNCHANGED <<coreVars, recs, metrics, mark, cleanup, mcp>>

\* The listings of the search are used up (or there were none).
EndAttempt ==
    /\ find.pc = "listing"
    /\ find.listings = <<>>
    /\ find' = EndOfAttempt(find)
    /\ UNCHANGED <<coreVars, recs, metrics, mark, cleanup, mcp>>

\* The loop is left: the competitors are returned, or the function throws
\* when there are none.
ReturnCompetitors ==
    /\ find.pc = "loop"
    /\ ~LoopContinues(find)
    /\ find' = [find EXCEPT !.pc = IF find.competitors = <<>> THEN "failed"
                                   ELSE "done"]
    /\ UNCHANGED <<coreVars, recs, metrics, mark, cleanup, mcp>>

FindInit ==
    /\ analyses = {}
    /\ alerts = {}
    /\ tracking = {}
    /\ isConnected = TRUE
    /\ now = 0
    /\ nextId = 1
    /\ started = 1
    /\ req = [p \in Procs |->
                 IF p = "r1" THEN [pc |-> "perform", op |-> "refresh",
                                   listingId |-> OwnId, analysis |-> {},
                                   prev |-> {}, matched |-> {},
                                   queue |-> <<>>, status |-> 0,
                                   details |-> "none"]
                 ELSE [pc |-> "idle", op |-> "none", listingId |-> "none",
                       analysis |-> {}, prev |-> {}, matched |-> {},
                       queue |-> <<>>, status |-> 0, details |-> "none"]]
    /\ find = [NotCalled EXCEPT !.pc = "loop"]
    /\ recs = NoRecs
    /\ metrics = NoMetrics
    /\ mark = NoMark
    /\ cleanup = NoCleanup
    /\ mcp = NoMcp

FindNext ==
    \/ SearchCompetitors
    \/ SkipListing
    \/ ListingThrows
    \/ LookupDetails
    \/ EndAttempt
    \/ ReturnCompetitors

SpecFind == FindInit /\ [][FindNext]_vars

\* The awaited calls and timers complete, so the function goes on.
SpecFindFair == SpecFind /\ WF_vars(FindNext)

---------------------------------------------------------------------------
(* Handlers *)

Idle ==
    [pc |-> "idle", op |-> "none", listingId |-> "none", analysis |-> {},
     prev |-> {}, matched |-> {}, queue |-> <<>>, status |-> 0,
     details |-> "none"]

TheAnalysis(p) == CHOOSE a \in req[p].analysis : TRUE

Init ==
    /\ analyses = {}
    /\ alerts = {}
    /\ tracking = {}
    /\ isConnected \in BOOLEAN
    /\ now = 0
    /\ nextId = 1
    /\ started = 0
    /\ req = [p \in Procs |-> Idle]
    /\ find = NotCalled
    /\ recs = NoRecs
    /\ metrics = NoMetrics
    /\ mark = NoMark
    /\ cleanup = NoCleanup
    /\ mcp = NoMcp

\* A request handler that is free to take a request for listing l. The
\* handlers are interchangeable and requests for different listings touch
\* different documents, so r2 serves only the requests that overlap a request
\* of r1 for the same listing that is still at work.
Free(p, l) ==
    /\ p \in Requests
    /\ req[p].pc = "idle"
    /\ p = "r2" => /\ req["r1"].pc \notin {"idle", "respond", "cached"}
                   /\ req["r1"].listingId = l

\* (variant: the catch block answers as if the request had succeeded)
SuccessResponse(r, message) ==
    [Idle EXCEPT !.pc = "respond", !.status = 200]

\* The catch block of a request handler:
\* res.status(500).json({ error: ..., details: error.message })
ErrorResponse(r, message) ==
    [Idle EXCEPT !.pc = "respond", !.status = 500, !.details = message]

\* The scheduled loop takes the next listing of its run, if any.
NextListing(r) ==
    IF Len(r.queue) > 1
    THEN [Idle EXCEPT !.pc = "perform", !.op = "scheduled",
                      !.listingId = r.queue[2], !.queue = Tail(r.queue)]
    ELSE Idle

\* Where a handler goes when performRealAnalysis or initializeMCP throws: a
\* request answers 500, the scheduled loop logs and takes its next listing.
AfterFailure(r, message) ==
    IF r.op = "scheduled" THEN NextListing(r) ELSE ErrorResponse(r, message)

\* The errors that end performRealAnalysis before it has data to analyse.
ProviderFailures ==
    IF isConnected
    THEN {"Unable to fetch listing data", "No competitors found"}
    ELSE {"MCP client not connected"}

\* POST /api/analyze: the request arrives and looks for a recent analysis; a
\* hit is answered from the store.
\* (variant: the recent analysis is ignored and a fresh one is started)
FreshAnalysis(l, d) ==
    [Idle EXCEPT !.pc = "connect", !.op = "analyze", !.listingId = l]

\* res.json({success: true, data: recentAnalysis, alerts, fromCache: true})
CachedResponse(l, d) ==
    [Idle EXCEPT !.pc = "cached", !.op = "analyze", !.listingId = l,
                 !.matched = {d._id}, !.status = 200, !.details = "fromCache"]

StartAnalyze(p, l) ==
    /\ Free(p, l)
    /\ IF RecentAnalysis(l) # {}
       THEN \E d \in RecentAnalysis(l) :
               req' = [req EXCEPT ![p] = CachedResponse(l, d)]
       ELSE /\ started < MaxAnalyses
            /\ req' = [req EXCEPT ![p] =
                          [Idle EXCEPT !.pc = "connect", !.op = "analyze",
                                       !.listingId = l]]
    /\ UNCHANGED <<analyses, alerts, tracking, isConnected, now, nextId,
                   started>>
    /\ UNCHANGED subVars

\* POST /api/analyze: if (!this.isConnected) await this.initializeMCP();
\* initializeMCP connects or throws, and the throw ends the request (500).
EnsureMCP(p) ==
    /\ req[p].pc = "connect"
    /\ \/ /\ isConnected
          /\ req' = [req EXCEPT ![p].pc = "perform"]
          /\ UNCHANGED isConnected
       \/ /\ ~isConnected
          /\ isConnected' = TRUE
          /\ req' = [req EXCEPT ![p].pc = "perform"]
       \/ /\ ~isConnected
          /\ isConnected' = FALSE
          /\ req' = [req EXCEPT ![p] =
                        AfterFailure(req[p], "MCP connection failed")]
    /\ UNCHANGED <<analyses, alerts, tracking, now, nextId, started>>
    /\ UNCHANGED subVars

\* POST /api/refresh/:listingId: the request arrives.
StartRefresh(p, l) ==
    /\ Free(p, l)
    /\ started < MaxAnalyses
    /\ req' = [req EXCEPT ![p] = [Idle EXCEPT !.pc = "perform",
                                              !.op = "refresh",
                                              !.listingId = l]]
    /\ UNCHANGED <<analyses, alerts, tracking, isConnected, now, nextId,
                   started>>
    /\ UNCHANGED subVars

\* performRealAnalysis up to the call of the diff engine: the connection
\* check, the provider calls, the recommendations, the market metrics and the
\* construction of `analysis`, stamped with the current time.
Perform(p, lists) ==
    /\ req[p].pc = "perform"
    /\ started < MaxAnalyses
    /\ started' = started + 1
    /\ \/ /\ isConnected
          /\ \E comps \in lists :
                req' = [req EXCEPT ![p].pc = "findPrev",
                                   ![p].analysis =
                                       {Analysis(req[p].listingId, comps, now)}]
          /\ now' = now + 1
       \/ /\ \E message \in ProviderFailures :
                req' = [req EXCEPT ![p] = AfterFailure(req[p], message)]
          /\ UNCHANGED now
    /\ UNCHANGED <<analyses, alerts, tracking, isConnected, nextId>>
    /\ UNCHANGED subVars

\* trackRealChangesAndGenerateAlerts: the look-up of the previous analysis.
\* Without one the function returns at once (first analysis of the listing).
AfterDiff(r) ==
    IF r.op = "scheduled" THEN [r EXCEPT !.pc = "delay"]
    ELSE [r EXCEPT !.pc = "upsertFind"]

IsFirstRun(prevAnalysis) == prevAnalysis = {}

FindPrev(p) ==
    /\ req[p].pc = "findPrev"
    /\ LET prevAnalysis == PreviousAnalysis(req[p].listingId,
                                            TheAnalysis(p).analyzedAt)
       IN  req' = [req EXCEPT ![p] =
                      IF IsFirstRun(prevAnalysis) THEN AfterDiff(req[p])
                      ELSE [@ EXCEPT !.pc = "insertAlerts",
                                     !.prev = prevAnalysis]]
    /\ UNCHANGED <<analyses, alerts, tracking, isConnected, now, nextId,
                   started>>
    /\ UNCHANGED subVars

\* trackRealChangesAndGenerateAlerts: the alerts of the run, and
\* Alert.insertMany(alerts) when there are any.
InsertAlerts(p) ==
    /\ req[p].pc = "insertAlerts"
    /\ LET l == req[p].listingId
           prevAnalysis == CHOOSE d \in req[p].prev : TRUE
           new == GenerateAlerts(l, prevAnalysis, TheAnalysis(p))
           docs == {StoredAlert(nextId + i - 1, new[i], now) :
                       i \in 1..Len(new)}
       IN  /\ alerts' = alerts \cup docs
           /\ nextId' = nextId + Len(new)
    /\ req' = [req EXCEPT ![p].pc = "track"]
    /\ UNCHANGED <<analyses, tracking, isConnected, now, started>>
    /\ UNCHANGED subVars

\* CompetitorTracking.findOneAndUpdate({userListingId, competitorId},
\*     {$push: {priceHistory, ratingHistory}, $set: ...}, {upsert: true})
TrackOne(coll, listingId, comp, t) ==
    LET hit == {d \in coll : d.userListingId = listingId
                             /\ d.competitorId = comp.id}
        price == [price |-> comp.price, date |-> t]
        rating == [rating |-> comp.rating, date |-> t]
    IN  IF hit = {}
        THEN coll \cup {[userListingId |-> listingId, competitorId |-> comp.id,
                         priceHistory |-> <<price>>,
                         ratingHistory |-> <<rating>>]}
        ELSE LET d == CHOOSE d \in hit : TRUE
             IN  (coll \ {d}) \cup
                 {[d EXCEPT !.priceHistory = Append(@, price),
                            !.ratingHistory = Append(@, rating)]}

RECURSIVE TrackAll(_, _, _, _)
TrackAll(coll, listingId, comps, t) ==
    IF comps = <<>> THEN coll
    ELSE TrackAll(TrackOne(coll, listingId, Head(comps), t), listingId,
                  Tail(comps), t)

\* trackRealChangesAndGenerateAlerts: the loop that updates the competitor
\* tracking records; then performRealAnalysis returns.
Track(p) ==
    /\ req[p].pc = "track"
    /\ tracking' = TrackAll(tracking, req[p].listingId,
                            TheAnalysis(p).competitors, now)
    /\ req' = [req EXCEPT ![p] = AfterDiff(req[p])]
    /\ UNCHANGED <<analyses, alerts, isConnected, now, nextId, started>>
    /\ UNCHANGED subVars

\* ListingAnalysis.findOneAndUpdate({listingId}, analysis, {upsert: true}):
\* the store first looks for a matching document ...
UpsertFind(p) ==
    /\ req[p].pc = "upsertFind"
    /\ req' = [req EXCEPT ![p].pc = "upsertWrite",
                          ![p].matched =
                              {d._id : d \in Oldest(Matching(req[p].listingId))}]
    /\ UNCHANGED <<analyses, alerts, tracking, isConnected, now, nextId,
                   started>>
    /\ UNCHANGED subVars

\* ... and then overwrites the document it found, or inserts a new one when it
\* found none. The collection has no unique index on listingId, so nothing
\* makes the two steps of one upsert exclude those of another. The request is
\* then answered.
UpsertWrite(p) ==
    /\ req[p].pc = "upsertWrite"
    /\ IF req[p].matched = {}
       THEN /\ analyses' = analyses \cup {StoredAnalysis(nextId, TheAnalysis(p))}
            /\ nextId' = nextId + 1
       ELSE /\ analyses' =
                  {IF d._id \in req[p].matched
                   THEN StoredAnalysis(d._id, TheAnalysis(p)) ELSE d :
                      d \in analyses}
            /\ UNCHANGED nextId
    /\ req' = [req EXCEPT ![p] = Idle]
    /\ UNCHANGED <<alerts, tracking, isConnected, now, started>>
    /\ UNCHANGED subVars

\* The response of a request answered from the cache leaves the server.
AnswerCached(p) ==
    /\ req[p].pc = "cached"
    /\ req' = [req EXCEPT ![p] = Idle]
    /\ UNCHANGED <<analyses, alerts, tracking, isConnected, now, nextId,
                   started>>
    /\ UNCHANGED subVars

\* The response of a failed request leaves the server.
Respond(p) ==
    /\ req[p].pc = "respond"
    /\ req' = [req EXCEPT ![p] = Idle]
    /\ UNCHANGED <<analyses, alerts, tracking, isConnected, now, nextId,
                   started>>
    /\ UNCHANGED subVars

\* cron '0 */6 * * *': the due listings are read and the loop takes the first.
CronFire ==
    /\ req[Cron].pc = "idle"
    /\ DueListings # <<>> => started < MaxAnalyses
    /\ LET due == DueListings
       IN  req' = [req EXCEPT ![Cron] =
                      IF due = <<>> THEN Idle
                      ELSE [Idle EXCEPT !.pc = "perform", !.op = "scheduled",
                                        !.listingId = due[1], !.queue = due]]
    /\ UNCHANGED <<analyses, alerts, tracking, isConnected, now, nextId,
                   started>>
    /\ UNCHANGED subVars

\* The scheduled loop: performRealAnalysis returned (its result is dropped),
\* the pacing delay passes and the loop takes its next listing.
CronDelay ==
    /\ req[Cron].pc = "delay"
    /\ req' = [req EXCEPT ![Cron] = NextListing(req[Cron])]
    /\ UNCHANGED <<analyses, alerts, tracking, isConnected, now, nextId,
                   started>>
    /\ UNCHANGED subVars

\* (variant: the filter leaves out the listing id)
MarkedReadOfAnyListing(coll, listingId, alertIds) ==
    {IF a._id \in alertIds THEN [a EXCEPT !.isRead = TRUE] ELSE a : a \in coll}

\* POST /api/alerts/:listingId/mark-read:
\* Alert.updateMany({listingId, _id: {$in: alertIds}}, {isRead: true})
MarkedRead(coll, listingId, alertIds) ==
    {IF a.listingId = listingId /\ a._id \in alertIds
     THEN [a EXCEPT !.isRead = TRUE] ELSE a : a \in coll}

\* result.modifiedCount: the documents the update changed
ModifiedCount(coll, listingId, alertIds) ==
    Cardinality({a \in coll : MarkedRead({a}, listingId, alertIds) # {a}})

\* (in the specifications of the whole server the answer is not kept)
MarkRead(l, alertIds) ==
    /\ alerts' = MarkedRead(alerts, l, alertIds)
    /\ UNCHANGED <<analyses, tracking, isConnected, now, nextId, started,
                   req>>
    /\ UNCHANGED subVars

\* cron '0 2 * * *': Alert.updateMany({createdAt: {$lt: now - 30 days},
\*                                     isRead: false}, {isRead: true})
\* (variant: the clean-up removes the old alerts)
OldAlertsRemoved(coll, t) ==
    {a \in coll : ~(a.createdAt < t - AlertRetentionHours /\ ~a.isRead)}

OldAlertsRead(coll, t) ==
    {IF a.createdAt < t - AlertRetentionHours /\ ~a.isRead
     THEN [a EXCEPT !.isRead = TRUE] ELSE a : a \in coll}

\* priceHistory.sort((a, b) => b.date - a.date): newest first, entries of one
\* date in their old order. The place of entry i after the sort:
PlaceByDate(h, i) ==
    1 + Cardinality({j \in 1..Len(h) :
                        \/ h[j].date > h[i].date
                        \/ h[j].date = h[i].date /\ j < i})

NewestFirst(h) ==
    LET placed == {<<PlaceByDate(h, i), i>> : i \in 1..Len(h)}
    IN  [k \in 1..Len(h) |-> h[(CHOOSE p \in placed : p[1] = k)[2]]]

\* if (priceHistory.length > 100) priceHistory = sorted.slice(0, 100)
TrimmedHistory(h) ==
    IF Len(h) > HistoryKeep THEN SubSeq(NewestFirst(h), 1, HistoryKeep) ELSE h

TrimmedTracking(coll) ==
    {[d EXCEPT !.priceHistory = TrimmedHistory(@)] : d \in coll}

\* cron '0 2 * * *': the old alerts are marked read, then the long price
\* histories are cut.
DailyCleanup ==
    /\ alerts' = OldAlertsRead(alerts, now)
    /\ tracking' = TrimmedTracking(tracking)
    /\ UNCHANGED <<analyses, isConnected, now, nextId, started, req>>
    /\ UNCHANGED subVars

\* Days pass, while no handler is running: enough to leave the cache window,
\* to make the stored analyses due and to outlast the retention of alerts.
Tick(d) ==
    /\ now + d <= Horizon
    /\ \A p \in Procs : req[p].pc = "idle"
    /\ now' = now + d
    /\ UNCHANGED <<analyses, alerts, tracking, isConnected, nextId, started,
                   req>>
    /\ UNCHANGED subVars

\* The alertIds of a mark-read request: every alert there is, or the oldest.
AlertIdChoices ==
    {{a._id : a \in alerts}} \cup
    {{a._id} : a \in {b \in alerts : \A c \in alerts : b._id <= c._id}}

Next ==
    \/ \E p \in Requests, l \in ListingIds : StartAnalyze(p, l)
    \/ \E p \in Requests, l \in ListingIds : StartRefresh(p, l)
    \/ \E p \in Requests : EnsureMCP(p)
    \/ \E p \in Procs : Perform(p, NarrowLists)
    \/ \E p \in Procs : FindPrev(p)
    \/ \E p \in Procs : InsertAlerts(p)
    \/ \E p \in Procs : Track(p)
    \/ \E p \in Requests : UpsertFind(p)
    \/ \E p \in Requests : UpsertWrite(p)
    \/ \E p \in Requests : Respond(p)
    \/ \E p \in Requests : AnswerCached(p)
    \/ CronFire
    \/ CronDelay
    \/ \E l \in ListingIds, ids \in AlertIdChoices : MarkRead(l, ids)
    \/ DailyCleanup
    \/ Tick(AlertRetentionHours + 1)

Spec == Init /\ [][Next]_vars

---------------------------------------------------------------------------
(* The diff engine on its own: one request that has just built its analysis *)
(* of listing L1, over a store holding no snapshot, an earlier snapshot of  *)
(* L1, or a snapshot of another listing.                                    *)

DiffInit ==
    /\ analyses \in
          {{}} \cup
          {{StoredAnalysis(1, Analysis("L1", comps, 0))} : comps \in WideLists}
          \cup
          {{StoredAnalysis(1, Analysis("L2", comps, 0))} : comps \in NarrowLists}
    /\ alerts = {}
    /\ tracking = {}
    /\ isConnected = TRUE
    /\ now = 2
    /\ nextId = 2
    /\ started = 1
    /\ \E comps \in WideLists :
          req = [p \in Procs |->
                    IF p = "r1"
                    THEN [Idle EXCEPT !.pc = "findPrev", !.op = "refresh",
                                      !.listingId = "L1",
                                      !.analysis = {Analysis("L1", comps, 1)}]
                    ELSE Idle]
    /\ find = NotCalled
    /\ recs = NoRecs
    /\ metrics = NoMetrics
    /\ mark = NoMark
    /\ cleanup = NoCleanup
    /\ mcp = NoMcp

DiffNext ==
    \/ FindPrev("r1")
    \/ InsertAlerts("r1")
    \/ Track("r1")
    \/ UpsertFind("r1")
    \/ UpsertWrite("r1")

SpecDiff == DiffInit /\ [][DiffNext]_vars

---------------------------------------------------------------------------
(* Step 3 to step 5 of performRealAnalysis on its own: one refresh of       *)
(* listing L1 that has its listing details and competitors, over a store    *)
(* holding an earlier snapshot of L1.                                       *)

RecLists == NarrowLists \cup {<<Comp("c1", 10000, 47, {"wifi", "pool"})>>}

RecsInit ==
    /\ analyses \in
          {{StoredAnalysis(1, Analysis("L1", comps, 0))} : comps \in NarrowLists}
    /\ alerts = {}
    /\ tracking = {}
    /\ isConnected = TRUE
    /\ now = 1
    /\ nextId = 2
    /\ started = 1
    /\ req = [p \in Procs |->
                 IF p = "r1"
                 THEN [Idle EXCEPT !.pc = "recommend", !.op = "refresh",
                                   !.listingId = "L1"]
                 ELSE Idle]
    /\ find = NotCalled
    /\ \E currentPrice \in {0, 9000, 12000}, userAmenities \in {{}, {"wifi"}},
          comps \in RecLists, long \in 0..1 :
          recs = [NoRecs EXCEPT !.pc = "start",
                                !.currentPrice = currentPrice,
                                !.userAmenities = userAmenities,
                                !.competitors = comps,
                                !.longDescriptions = long]
    /\ metrics = NoMetrics
    /\ mark = NoMark
    /\ cleanup = NoCleanup
    /\ mcp = NoMcp

\* The three calls inside Promise.all([...]): each runs to its first await.
\* The feature analysis has none and is complete at once; the description
\* analysis has none when no competitor description is long enough.
StartRecommendations ==
    /\ recs.pc = "start"
    /\ recs' = [recs EXCEPT
                   !.pc = "branches",
                   !.feature = {FeatureAnalysis(recs.userAmenities,
                                                recs.competitors)},
                   !.description = IF recs.longDescriptions = 0
                                   THEN {PlainDescriptionAnalysis} ELSE {}]
    /\ UNCHANGED <<coreVars, find, metrics, mark, cleanup, mcp>>

\* The pricing completion arrives (or fails) and the function returns.
FinishPricing ==
    /\ recs.pc = "branches"
    /\ recs.pricing = {}
    /\ \E o \in PricingOutcomes :
          recs' = [recs EXCEPT
                      !.pricing = {PricingRecommendations(recs.currentPrice,
                                                          recs.competitors, o)},
                      !.order = Append(@, "pricing")]
    /\ UNCHANGED <<coreVars, find, metrics, mark, cleanup, mcp>>

\* The description completion arrives (or fails) and the function returns.
FinishDescription ==
    /\ recs.pc = "branches"
    /\ recs.description = {}
    /\ \E o \in DescriptionOutcomes :
          recs' = [recs EXCEPT
                      !.description = {DescriptionAnalysis(o)},
                      !.order = Append(@, "description")]
    /\ UNCHANGED <<coreVars, find, metrics, mark, cleanup, mcp>>

\* (An assembly that hands out the results in the order of their completion:
\* the slot of a branch that awaited takes what finished first.)
AssembledByCompletion(r, t) ==
    [listingId |-> "L1",
     competitors |-> r.competitors,
     pricingRecommendations |->
         IF r.order # <<>> /\ Head(r.order) = "description"
         THEN r.description ELSE r.pricing,
     featureAnalysis |-> r.feature,
     descriptionAnalysis |->
         IF Len(r.order) = 2 /\ Head(r.order) = "description"
         THEN r.pricing ELSE r.description,
     analyzedAt |-> t]

\* The analysis object as performRealAnalysis assembles it from the array
\* that Promise.all resolves to, in the order of the calls.
Assembled(r, t) ==
    [listingId |-> "L1",
     competitors |-> r.competitors,
     pricingRecommendations |-> r.pricing,
     featureAnalysis |-> r.feature,
     descriptionAnalysis |-> r.description,
     analyzedAt |-> t]

\* Promise.all resolves once the three promises have; the market metrics are
\* computed, `analysis` is built and the diff engine is called.
JoinRecommendations ==
    /\ recs.pc = "branches"
    /\ recs.pricing # {} /\ recs.feature # {} /\ recs.description # {}
    /\ recs' = [recs EXCEPT !.pc = "joined",
                            !.analysis = {Assembled(recs, now)}]
    /\ req' = [req EXCEPT !["r1"].pc = "findPrev",
                          !["r1"].analysis =
                              {Analysis("L1", recs.competitors, now)}]
    /\ now' = now + 1
    /\ UNCHANGED <<analyses, alerts, tracking, isConnected, nextId, started>>
    /\ UNCHANGED <<find, metrics, mark, cleanup, mcp>>

RecsNext ==
    \/ StartRecommendations
    \/ FinishPricing
    \/ FinishDescription
    \/ JoinRecommendations
    \/ FindPrev("r1")
    \/ InsertAlerts("r1")
    \/ Track("r1")
    \/ UpsertFind("r1")
    \/ UpsertWrite("r1")

SpecRecs == RecsInit /\ [][RecsNext]_vars

---------------------------------------------------------------------------
(* The 6-hourly job on its own, over a store holding a snapshot of L1, or   *)
(* of L1 and L2, that is due at the first firing.                           *)

FirstFiring == Horizon - 2 * UpdateHours - 4

CronInit ==
    /\ \E c1, c2 \in NarrowLists :
          LET s1 == StoredAnalysis(1, Analysis("L1", c1,
                                               FirstFiring - UpdateHours))
              s2 == StoredAnalysis(2, Analysis("L2", c2,
                                               FirstFiring - UpdateHours))
          IN  analyses \in {{s1}, {s1, s2}}
    /\ alerts = {}
    /\ tracking = {}
    /\ isConnected \in BOOLEAN
    /\ now = FirstFiring
    /\ nextId = 3
    /\ started = 0
    /\ req = [p \in Procs |-> Idle]
    /\ find = NotCalled
    /\ recs = NoRecs
    /\ metrics = NoMetrics
    /\ mark = NoMark
    /\ cleanup = NoCleanup
    /\ mcp = NoMcp

CronNext ==
    \/ CronFire
    \/ Perform(Cron, NarrowLists)
    \/ FindPrev(Cron)
    \/ InsertAlerts(Cron)
    \/ Track(Cron)
    \/ CronDelay
    \/ Tick(UpdateHours)

SpecCron == CronInit /\ [][CronNext]_vars

---------------------------------------------------------------------------
(* calculateRealMarketMetrics on its own, evaluated twice on one competitor *)
(* list of the kind findRealCompetitors returns (every price above 0).      *)

MetricsComps ==
    {MetricsComp(p, r, a) :
        p \in {10000, 15050}, r \in {0, 45, 48},
        a \in {<<>>, <<"wifi">>, <<"wifi", "wifi">>, <<"wifi", "pool">>}}

MetricsLists ==
    {<<a>> : a \in MetricsComps} \cup {<<a, b>> : a, b \in MetricsComps}

MetricsInit ==
    /\ analyses = {}
    /\ alerts = {}
    /\ tracking = {}
    /\ isConnected = TRUE
    /\ now = 0
    /\ nextId = 1
    /\ started = 1
    /\ req = [p \in Procs |-> Idle]
    /\ find = NotCalled
    /\ recs = NoRecs
    /\ \E comps \in MetricsLists :
          metrics = [NoMetrics EXCEPT !.pc = "input", !.competitors = comps]
    /\ mark = NoMark
    /\ cleanup = NoCleanup
    /\ mcp = NoMcp

Calculate ==
    /\ metrics.pc = "input"
    /\ metrics' = [metrics EXCEPT !.pc = "once",
                                  !.first = {MarketMetrics(metrics.competitors)}]
    /\ UNCHANGED <<coreVars, find, recs, mark, cleanup, mcp>>

CalculateAgain ==
    /\ metrics.pc = "once"
    /\ metrics' = [metrics EXCEPT !.pc = "twice",
                                  !.second = {MarketMetrics(metrics.competitors)}]
    /\ UNCHANGED <<coreVars, find, recs, mark, cleanup, mcp>>

MetricsNext == Calculate \/ CalculateAgain

SpecMetrics == MetricsInit /\ [][MetricsNext]_vars

---------------------------------------------------------------------------
(* POST /api/alerts/:listingId/mark-read on its own, with its answer, over  *)
(* a store of two alerts of L1 and two of L2, each read or unread.          *)

MarkAlert(id, l, read) ==
    [StoredAlert(id, NewCompetitorAlert(l, Comp("c1", 10000, 47, {})), 0)
        EXCEPT !.isRead = read]

\* alertIds of the request body: ids of either listing, and one of no alert
MarkIdChoices == SUBSET {1, 2, 3, 4, 9}

MarkInit ==
    /\ analyses = {}
    /\ \E r \in [1..4 -> BOOLEAN] :
          alerts = {MarkAlert(1, "L1", r[1]), MarkAlert(2, "L1", r[2]),
                    MarkAlert(3, "L2", r[3]), MarkAlert(4, "L2", r[4])}
    /\ tracking = {}
    /\ isConnected = TRUE
    /\ now = 1
    /\ nextId = 5
    /\ started = 0
    /\ req = [p \in Procs |-> Idle]
    /\ find = NotCalled
    /\ recs = NoRecs
    /\ metrics = NoMetrics
    /\ mark = NoMark
    /\ cleanup = NoCleanup
    /\ mcp = NoMcp

MarkReadAnswered(l, alertIds) ==
    /\ alerts' = MarkedRead(alerts, l, alertIds)
    /\ mark' = [listingId |-> l, alertIds |-> alertIds,
                modifiedCount |-> ModifiedCount(alerts, l, alertIds)]
    /\ UNCHANGED <<analyses, tracking, isConnected, now, nextId, started,
                   req>>
    /\ UNCHANGED <<find, recs, metrics, cleanup, mcp>>

MarkNext == \E l \in ListingIds, ids \in MarkIdChoices : MarkReadAnswered(l, ids)

SpecMark == MarkInit /\ [][MarkNext]_vars

---------------------------------------------------------------------------
(* The daily cleanup step by step, next to requests whose diff engine is    *)
(* about to update the competitor tracking of L1. The tracking record of c1 *)
(* holds 99, 100 or 101 price entries, dated 1, 2, ...; c2 may have one of  *)
(* 101.                                                                     *)

PriceEntries(n) == [i \in 1..n |-> [price |-> 10000, date |-> i]]

TrackingRecord(id, n) ==
    [userListingId |-> "L1", competitorId |-> id,
     priceHistory |-> PriceEntries(n),
     ratingHistory |-> <<[rating |-> 47, date |-> n]>>]

CleanupStart == HistoryKeep + 2

AtTrack(comps) ==
    [Idle EXCEPT !.pc = "track", !.op = "refresh", !.listingId = "L1",
                 !.analysis = {Analysis("L1", comps, CleanupStart - 1)}]

CleanupInit ==
    /\ analyses = {StoredAnalysis(1, Analysis("L1", <<Comp("c1", 10000, 47, {})>>, 0))}
    /\ alerts = {}
    /\ \E n \in {HistoryKeep - 1, HistoryKeep, HistoryKeep + 1} :
          tracking \in {{TrackingRecord("c1", n)},
                        {TrackingRecord("c1", n),
                         TrackingRecord("c2", HistoryKeep + 1)}}
    /\ isConnected = TRUE
    /\ now = CleanupStart
    /\ nextId = 2
    /\ started = 2
    /\ \E c1 \in NarrowLists, c2 \in NarrowLists \cup {<<>>} :
          req = [p \in Procs |->
                    IF p = "r1" THEN AtTrack(c1)
                    ELSE IF p = "r2" /\ c2 # <<>> THEN AtTrack(c2)
                    ELSE Idle]
    /\ find = NotCalled
    /\ recs = NoRecs
    /\ metrics = NoMetrics
    /\ mark = NoMark
    /\ cleanup = [NoCleanup EXCEPT !.pc = "start"]
    /\ mcp = NoMcp

\* The old alerts are marked read and CompetitorTracking.find({}) loads the
\* tracking records.
CleanupLoad ==
    /\ cleanup.pc = "start"
    /\ alerts' = OldAlertsRead(alerts, now)
    /\ cleanup' = [pc |-> "loop", loaded |-> tracking]
    /\ UNCHANGED <<analyses, tracking, isConnected, now, nextId, started,
                   req>>
    /\ UNCHANGED <<find, recs, metrics, mark, mcp>>

\* tracking.save() of a record whose priceHistory was replaced: the stored
\* priceHistory becomes that of the loaded record, cut.
SavedHistory(coll, d) ==
    {IF e.userListingId = d.userListingId /\ e.competitorId = d.competitorId
     THEN [e EXCEPT !.priceHistory = TrimmedHistory(d.priceHistory)]
     ELSE e : e \in coll}

\* One iteration of the loop over the loaded records.
CleanupRecord ==
    /\ cleanup.pc = "loop"
    /\ \E d \in cleanup.loaded :
          /\ tracking' = IF Len(d.priceHistory) > HistoryKeep
                         THEN SavedHistory(tracking, d) ELSE tracking
          /\ cleanup' = [cleanup EXCEPT !.loaded = @ \ {d}]
    /\ UNCHANGED <<analyses, alerts, isConnected, now, nextId, started, req>>
    /\ UNCHANGED <<find, recs, metrics, mark, mcp>>

\* The loop is through.
CleanupEnd ==
    /\ cleanup.pc = "loop"
    /\ cleanup.loaded = {}
    /\ cleanup' = [cleanup EXCEPT !.pc = "done"]
    /\ UNCHANGED coreVars
    /\ UNCHANGED <<find, recs, metrics, mark, mcp>>

\* A request's diff engine updates the tracking records (while the cleanup
\* is where it is).
TrackMeanwhile(p) ==
    /\ Track(p)
    /\ cleanup.pc # "none"

CleanupNext ==
    \/ CleanupLoad
    \/ CleanupRecord
    \/ CleanupEnd
    \/ \E p \in Requests : TrackMeanwhile(p)

SpecCleanup == CleanupInit /\ [][CleanupNext]_vars

---------------------------------------------------------------------------
(* initializeMCP step by step: one or two requests of POST /api/analyze for *)
(* L1 that missed the cache, on a backend that is connected (by the         *)
(* initialisation at start-up) or not.                                      *)

AtConnect ==
    [Idle EXCEPT !.pc = "connect", !.op = "analyze", !.listingId = "L1"]

\* the backend after the initializeMCP of start(): connected, or failed
\* before or after the client was created
StartedMcp(connected, client) ==
    [calls |-> {}, spawned |-> 1, pairs |-> IF connected THEN 1 ELSE 0,
     mcpClient |-> IF connected THEN {"start"} ELSE client]

McpInit ==
    /\ analyses = {}
    /\ alerts = {}
    /\ tracking = {}
    /\ isConnected \in BOOLEAN
    /\ now = 0
    /\ nextId = 1
    /\ started = 0
    /\ \E second \in {AtConnect, Idle} :
          req = [p \in Procs |->
                    IF p = "r1" THEN AtConnect
                    ELSE IF p = "r2" THEN second ELSE Idle]
    /\ find = NotCalled
    /\ recs = NoRecs
    /\ metrics = NoMetrics
    /\ mark = NoMark
    /\ cleanup = NoCleanup
    /\ \E client \in {{}, {"start"}} : mcp = StartedMcp(isConnected, client)

\* if (!this.isConnected) await this.initializeMCP(): when connected the
\* handler goes on; otherwise initializeMCP spawns a server process and
\* waits 3 s.
CheckConnected(p) ==
    /\ req[p].pc = "connect"
    /\ IF isConnected
       THEN /\ req' = [req EXCEPT ![p].pc = "perform"]
            /\ UNCHANGED mcp
       ELSE /\ req' = [req EXCEPT ![p].pc = "spawned"]
            /\ mcp' = [mcp EXCEPT !.calls = @ \cup {p}, !.spawned = @ + 1]
    /\ UNCHANGED <<analyses, alerts, tracking, isConnected, now, nextId,
                   started>>
    /\ UNCHANGED <<find, recs, metrics, mark, cleanup>>

\* The wait is over: the transport and the client are created and stored in
\* this.transport and this.mcpClient, and connect is called.
CreateClient(p) ==
    /\ req[p].pc = "spawned"
    /\ req' = [req EXCEPT ![p].pc = "connecting"]
    /\ mcp' = [mcp EXCEPT !.mcpClient = {p}]
    /\ UNCHANGED <<analyses, alerts, tracking, isConnected, now, nextId,
                   started>>
    /\ UNCHANGED <<find, recs, metrics, mark, cleanup>>

\* connect resolves (the transport has started its server process):
\* isConnected = true and the handler goes on; or it rejects: isConnected =
\* false and the request fails.
Connected(p) ==
    /\ req[p].pc = "connecting"
    /\ \/ /\ isConnected' = TRUE
          /\ mcp' = [mcp EXCEPT !.calls = @ \ {p}, !.pairs = @ + 1]
          /\ req' = [req EXCEPT ![p].pc = "perform"]
       \/ /\ isConnected' = FALSE
          /\ mcp' = [mcp EXCEPT !.calls = @ \ {p}]
          /\ req' = [req EXCEPT ![p] =
                        AfterFailure(req[p], "MCP connection failed")]
    /\ UNCHANGED <<analyses, alerts, tracking, now, nextId, started>>
    /\ UNCHANGED <<find, recs, metrics, mark, cleanup>>

\* serverProcess.on('error', ...): this.isConnected = false
ProcessError ==
    /\ mcp.spawned > 0
    /\ isConnected
    /\ isConnected' = FALSE
    /\ UNCHANGED <<analyses, alerts, tracking, now, nextId, started, req>>
    /\ UNCHANGED <<find, recs, metrics, mark, cleanup, mcp>>

McpNext ==
    \/ \E p \in Requests : CheckConnected(p)
    \/ \E p \in Requests : CreateClient(p)
    \/ \E p \in Requests : Connected(p)
    \/ ProcessError
    \/ \E p \in Requests : Perform(p, NarrowLists)
    \/ \E p \in Requests : Respond(p)

SpecMcp == McpInit /\ [][McpNext]_vars

---------------------------------------------------------------------------
(* One analyze or refresh request of listing L1 whose storage operations    *)
(* may fail: the request has just built its analysis, over empty alert and  *)
(* tracking collections and a store holding no snapshot or an earlier       *)
(* snapshot of L1.                                                          *)

StorageMessage == "storage operation failed"

\* The tracking collection when the update of competitor k + 1 rejects: the
\* loop awaits each findOneAndUpdate, so the first k updates are done.
TrackedBeforeFailure(p, k) ==
    TrackAll(tracking, req[p].listingId,
             SubSeq(TheAnalysis(p).competitors, 1, k), now)

\* A storage operation of the request rejects. Neither
\* trackRealChangesAndGenerateAlerts nor performRealAnalysis catches, so the
\* rejection reaches the catch block of the handler, which answers 500.
\* Nothing is undone: what the earlier awaits wrote stays written.
\* Alert.insertMany is only called when there are alerts, and its rejection
\* is taken to insert none of them.
StorageFails(p) ==
    /\ req[p].op \in {"analyze", "refresh"}
    /\ \/ /\ req[p].pc \in {"findPrev", "upsertFind", "upsertWrite"}
          /\ UNCHANGED tracking
       \/ /\ req[p].pc = "insertAlerts"
          /\ GenerateAlerts(req[p].listingId, CHOOSE d \in req[p].prev : TRUE,
                            TheAnalysis(p)) # <<>>
          /\ UNCHANGED tracking
       \/ /\ req[p].pc = "track"
          /\ \E k \in 0..(Len(TheAnalysis(p).competitors) - 1) :
                tracking' = TrackedBeforeFailure(p, k)
    /\ req' = [req EXCEPT ![p] = ErrorResponse(req[p], StorageMessage)]
    /\ UNCHANGED <<analyses, alerts, isConnected, now, nextId, started>>
    /\ UNCHANGED subVars

\* The competitor lists of the new analysis.
StorageLists ==
    Lists({Comp("c1", p, 47, a) : p \in {10000, 10400, 13000},
                                  a \in {{}, {"wifi"}}},
          {Comp("c2", 10000, 48, {})})

StorageInit ==
    /\ analyses \in
          {{}} \cup
          {{StoredAnalysis(1, Analysis("L1", comps, 0))} : comps \in NarrowLists}
    /\ alerts = {}
    /\ tracking = {}
    /\ isConnected = TRUE
    /\ now = 2
    /\ nextId = 2
    /\ started = 1
    /\ \E comps \in StorageLists, op \in {"analyze", "refresh"} :
          req = [p \in Procs |->
                    IF p = "r1"
                    THEN [Idle EXCEPT !.pc = "findPrev", !.op = op,
                                      !.listingId = "L1",
                                      !.analysis = {Analysis("L1", comps, 1)}]
                    ELSE Idle]
    /\ find = NotCalled
    /\ recs = NoRecs
    /\ metrics = NoMetrics
    /\ mark = NoMark
    /\ cleanup = NoCleanup
    /\ mcp = NoMcp

StorageNext ==
    \/ FindPrev("r1")
    \/ InsertAlerts("r1")
    \/ Track("r1")
    \/ UpsertFind("r1")
    \/ UpsertWrite("r1")
    \/ StorageFails("r1")
    \/ Respond("r1")

SpecStorage == StorageInit /\ [][StorageNext]_vars

---------------------------------------------------------------------------
(* Properties of one run of the diff engine (checked under SpecDiff).       *)
(* While r1 is between the end of its diff run and its save, the store      *)
(* still holds what the run was compared with and `alerts` holds exactly    *)
(* what the run persisted.                                                  *)

DiffRan == req["r1"].pc \in {"track", "upsertFind", "upsertWrite"}

NewSnapshot == TheAnalysis("r1")

\* the stored snapshot of the listing, if any (null on a first run)
PrevSnapshot == Matching(req["r1"].listingId)

\* the pairs <<old record, new record>> of the competitors in both snapshots
InBoth ==
    {pair \in UNION {{<<d.competitors[i], NewSnapshot.competitors[j]>> :
                         i \in 1..Len(d.competitors),
                         j \in 1..Len(NewSnapshot.competitors)} :
                     d \in PrevSnapshot} :
        pair[1].id = pair[2].id}

AlertsOf(type, id) == {a \in alerts : a.type = type /\ a.competitorId = {id}}

AlertsOfType(type) == {a \in alerts : a.type = type}

\* k is x / y rounded to the nearest integer, a half rounding up (y > 0)
IsRounded(k, x, y) == 2 * k * y <= 2 * x + y /\ 2 * x + y < 2 * (k + 1) * y

\* C1: a run of the diff engine for a listing id that has no stored snapshot
\* persists no alert, whatever the new snapshot holds (and whatever the store
\* holds for other listings).
FirstRunPersistsNoAlerts ==
    DiffRan /\ PrevSnapshot = {} => alerts = {}

FirstRunWitness ==
    /\ DiffRan
    /\ PrevSnapshot = {}
    /\ analyses # {}
    /\ Len(NewSnapshot.competitors) = 2
    /\ alerts = {}

\* C2 (as claimed): for a competitor in both snapshots, no price_change alert
\* below a difference of 5 dollars, exactly one from 5 dollars on, and its
\* changePercentage is above 0 when the price rose and below 0 when it fell.
PriceAlertStrictlySigned ==
    DiffRan =>
        \A pair \in InBoth :
            LET old == pair[1].price
                new == pair[2].price
                got == AlertsOf("price_change", pair[2].id)
            IN  IF Abs(new - old) < PriceThreshold * 100 THEN got = {}
                ELSE /\ Cardinality(got) = 1
                     /\ \A a \in got :
                           /\ a.changePercentage # {}
                           /\ \A k \in a.changePercentage :
                                 /\ new > old => k > 0
                                 /\ new < old => k < 0

\* C3: in a run with a previous snapshot, every competitor id of the new
\* snapshot that the previous snapshot lacks gets exactly one new_competitor
\* alert, which carries that id, and no other id gets one.
NewCompetitorExactlyOnce ==
    DiffRan =>
        \A d \in PrevSnapshot :
            /\ \A id \in CompetitorIds :
                  Cardinality(AlertsOf("new_competitor", id)) =
                      IF id \in Ids(NewSnapshot.competitors)
                                   \ Ids(d.competitors)
                      THEN 1 ELSE 0
            /\ \A a \in AlertsOfType("new_competitor") :
                  \E id \in CompetitorIds : a.competitorId = {id}

NewCompetitorWitness ==
    /\ DiffRan
    /\ \E d \in PrevSnapshot :
          /\ Ids(d.competitors) = {"c1"}
          /\ Ids(NewSnapshot.competitors) = {"c1", "c2"}
    /\ Cardinality(AlertsOf("new_competitor", "c2")) = 1
    /\ AlertsOf("new_competitor", "c1") = {}

\* C4: in a run with a previous snapshot there is a market_trend alert
\* exactly when the two market average prices differ by more than 10, there
\* is at most one, and its impact is "high" when the rounded change in
\* percent of the previous average exceeds 20 in magnitude, "opportunity"
\* otherwise: a function of the two averages.
MarketTrendByAverages ==
    DiffRan =>
        \A d \in PrevSnapshot :
            LET old == d.averagePrice
                new == NewSnapshot.averagePrice
                got == AlertsOfType("market_trend")
            IN  IF Abs(new - old) > 10
                THEN /\ Cardinality(got) = 1
                     /\ \A a \in got :
                           /\ a.oldValue = {old}
                           /\ a.newValue = {new}
                           /\ a.changePercentage # {}
                           /\ \A k \in a.changePercentage :
                                 /\ IsRounded(k, 100 * (new - old), old)
                                 /\ a.impact = IF Abs(k) > 20 THEN "high"
                                               ELSE "opportunity"
                ELSE got = {}

MarketTrendWitness ==
    /\ DiffRan
    /\ \E d \in PrevSnapshot :
          /\ d.averagePrice = 100
          /\ NewSnapshot.averagePrice = 120
    /\ \E a \in AlertsOfType("market_trend") :
          a.impact = "opportunity" /\ a.changePercentage = {20}

\* C5 (as claimed): for a competitor in both snapshots there is a
\* rating_change alert if and only if the two ratings differ by at least 0.1,
\* whatever the old rating (0 to 5).
RatingAlertIffThreshold ==
    DiffRan =>
        \A pair \in InBoth :
            AlertsOf("rating_change", pair[2].id) # {}
                <=> Abs(pair[2].rating - pair[1].rating) >= RatingThresholdTenths

\* C6 (as claimed): an amenity_update alert exists for a competitor exactly
\* when the competitor is in both snapshots and its new amenities hold one
\* that the old ones lack; a competitor of the new snapshot alone gets none.
AmenityAlertOnlyForKnown ==
    DiffRan =>
        \A id \in CompetitorIds :
            AlertsOf("amenity_update", id) # {}
                <=> \E pair \in InBoth :
                        /\ pair[2].id = id
                        /\ pair[2].amenities \ pair[1].amenities # {}

Rank(impact) ==
    CASE impact = "high" -> 3 [] impact = "medium" -> 2 [] OTHER -> 1

\* C7: the impact of a price_change alert depends only on the magnitude of
\* its rounded changePercentage: "high" above 15, "medium" above 8 and up to
\* 15, "low" otherwise; a larger magnitude never has a lower impact.
PriceSeverityBuckets ==
    /\ \A a \in AlertsOfType("price_change") :
          /\ a.changePercentage # {}
          /\ \A k \in a.changePercentage :
                a.impact = IF Abs(k) > 15 THEN "high"
                           ELSE IF Abs(k) > 8 THEN "medium" ELSE "low"
    /\ \A a, b \in AlertsOfType("price_change") :
          \A k \in a.changePercentage, m \in b.changePercentage :
              Abs(k) >= Abs(m) => Rank(a.impact) >= Rank(b.impact)

PriceSeverityWitness ==
    /\ \E a \in AlertsOf("price_change", "c1") :
          a.changePercentage = {15} /\ a.impact = "medium"
    /\ \E b \in AlertsOf("price_change", "c2") : b.impact = "high"

---------------------------------------------------------------------------
(* Properties of the store under overlapping handlers (checked under Spec) *)

\* C8 (as claimed): whatever requests and scheduled updates ran, and however
\* they overlapped, the store holds at most one snapshot per listing id.
OneSnapshotPerListing ==
    \A l \in ListingIds : Cardinality(Matching(l)) <= 1

\* the alerts a step adds to the store
Persisted == {a \in alerts' : \A b \in alerts : b._id # a._id}

\* C9: the alerts a run of the diff engine persists carry the listing id of
\* the two snapshots that run compared; an alert that names a competitor
\* names one of the previous or of the new snapshot; a market_trend alert
\* names none.
AlertsReferToDiffedPair ==
    [][\A p \in Procs :
          req[p].pc = "insertAlerts" /\ req'[p].pc = "track" =>
              \A d \in req[p].prev, n \in req[p].analysis :
                  /\ d.listingId = n.listingId
                  /\ \A a \in Persisted :
                        /\ a.listingId = n.listingId
                        /\ a.competitorId \subseteq
                               Ids(d.competitors) \cup Ids(n.competitors)
                        /\ a.type = "market_trend" => a.competitorId = {}
                        /\ a.type # "market_trend" => a.competitorId # {}]_vars

AlertsReferWitness ==
    \E p \in Procs :
        /\ req[p].pc = "track"
        /\ req[p].listingId = "L2"
        /\ \E a \in alerts : a.type = "market_trend" /\ a.listingId = "L2"
        /\ \E a \in alerts : a.type = "new_competitor"
                              /\ a.competitorId = {"c2"}
        /\ \E a \in alerts : a.type = "price_change"
                              /\ a.competitorId = {"c1"}

\* C10: alerts come into the store only when the diff engine inserts them;
\* no step removes an alert or changes a field of it other than isRead, and
\* isRead never goes back from true to false.
AlertsOnlyGetRead ==
    [][/\ \A a \in alerts :
             \E b \in alerts' :
                 /\ b = [a EXCEPT !.isRead = b.isRead]
                 /\ a.isRead => b.isRead
       /\ Persisted # {} =>
             \E p \in Procs :
                 req[p].pc = "insertAlerts" /\ req'[p].pc = "track"
       /\ Cardinality(alerts') = Cardinality(alerts) + Cardinality(Persisted)
      ]_vars

AlertsOnlyGetReadWitness ==
    /\ \E a \in alerts : a.isRead /\ a.createdAt < now - AlertRetentionHours
    /\ \E a \in alerts : ~a.isRead

\* C11 (as claimed): a snapshot document, once in the store, stays there with
\* its contents; a later analysis of the listing adds a snapshot, so the
\* documents GET /api/history finds for a listing only grow in number.
StoredSnapshotsImmutable ==
    [][\A d \in analyses : d \in analyses']_vars

---------------------------------------------------------------------------
(* Competitor tracking of one run of the diff engine (checked under        *)
(* SpecDiff, where the tracking collection starts empty)                   *)

\* the run of r1 has returned to performRealAnalysis
DiffReturned == req["r1"].pc \in {"upsertFind", "upsertWrite"}

TrackingOf(listingId, id) ==
    {d \in tracking : d.userListingId = listingId /\ d.competitorId = id}

\* C12 (as claimed): after a run of the diff engine, with or without a
\* previous snapshot, every competitor of the new snapshot has one tracking
\* record, to which the run added one price entry and one rating entry with
\* the competitor's price and rating of the new snapshot.
EveryRunTracksCompetitors ==
    DiffReturned =>
        \A i \in 1..Len(NewSnapshot.competitors) :
            LET c == NewSnapshot.competitors[i]
                records == TrackingOf(NewSnapshot.listingId, c.id)
            IN  /\ Cardinality(records) = 1
                /\ \A d \in records :
                      /\ Len(d.priceHistory) = 1
                      /\ d.priceHistory[1].price = c.price
                      /\ Len(d.ratingHistory) = 1
                      /\ d.ratingHistory[1].rating = c.rating

---------------------------------------------------------------------------
(* Failures of the listing-data provider (checked under Spec) *)

BeforeData == {"idle", "connect", "perform", "respond"}

ErrorMessages ==
    {"MCP connection failed", "MCP client not connected",
     "Unable to fetch listing data", "No competitors found"}

\* C13: a request of POST /api/analyze or POST /api/refresh that cannot reach
\* the provider (the connection cannot be made, the client is not connected,
\* the listing cannot be fetched, no competitor is found) answers 500 with
\* the error message, and from its arrival to its answer it writes no
\* snapshot, no alert and no tracking record.
ProviderFailureAnswers500 ==
    [][\A p \in Requests :
          /\ req[p].pc \in BeforeData /\ req'[p] # req[p] =>
                /\ analyses' = analyses
                /\ alerts' = alerts
                /\ tracking' = tracking
          /\ req[p].pc = "connect" /\ req'[p] # req[p] /\ ~isConnected' =>
                req'[p].pc = "respond"
          /\ req[p].pc = "perform" /\ req'[p] # req[p] =>
                \/ req'[p].pc = "respond" /\ req'[p].analysis = {}
                \/ req'[p].pc = "findPrev" /\ req'[p].analysis # {}
                                          /\ isConnected
          /\ req[p].pc # "respond" /\ req'[p].pc = "respond" =>
                /\ req[p].pc \in {"connect", "perform"}
                /\ req'[p].status = 500
                /\ req'[p].details \in ErrorMessages
      ]_vars

ProviderFailureWitness ==
    /\ analyses # {}
    /\ tracking = {}
    /\ \E p \in Requests :
          /\ req[p].pc = "respond"
          /\ req[p].status = 500
          /\ req[p].details = "No competitors found"

---------------------------------------------------------------------------
(* Properties of findRealCompetitors (checked under SpecFind and            *)
(* SpecFindFair)                                                            *)

FindEnded == find.pc \in {"done", "failed"}

\* C14: whatever the provider does, findRealCompetitors comes to an end; it
\* issues at most 3 searches; the attempt counter goes up by exactly one per
\* iteration of the loop (it equals the number of searches at the head of
\* the loop and is one behind inside an iteration); a search is issued only
\* while fewer than 8 competitors are collected and fewer than 3 attempts are
\* used, and the loop is left when one of the two limits is reached.
FindTerminatesWithinThreeSearches ==
    /\ [](/\ find.searches <= maxAttempts
          /\ Len(find.competitors) <= maxCompetitors
          /\ find.attempts = IF find.pc = "listing" THEN find.searches - 1
                             ELSE find.searches
          /\ FindEnded => \/ Len(find.competitors) = maxCompetitors
                          \/ find.attempts = maxAttempts)
    /\ [][find'.searches # find.searches =>
             /\ find'.searches = find.searches + 1
             /\ Len(find.competitors) < maxCompetitors
             /\ find.attempts < maxAttempts]_vars
    /\ <>FindEnded

FindTerminatesWitness ==
    /\ find.pc = "done"
    /\ Len(find.competitors) = maxCompetitors
    /\ find.searches = maxAttempts

\* C18 (as claimed): a detail lookup is issued only when a fixed delay has
\* passed since the lookup before it, however that lookup ended.
LookupsArePaced ==
    [][LookupDue(find) /\ find' # find => ~find.unpaced]_vars


\* C15: the pricing recommendations of an analysis always have a market
\* position that is one of below_market, at_market and above_market and a
\* suggested price range with min <= optimal <= max, whatever the completion
\* was.
WellFormedRange(r) ==
    /\ r.min # {} /\ r.max # {} /\ r.optimal # {}
    /\ \A lo \in r.min, mid \in r.optimal, hi \in r.max :
          lo <= mid /\ mid <= hi

PricingAlwaysWellFormed ==
    \A p \in recs.pricing :
        /\ p.currentMarketPosition \in MarketPositions
        /\ WellFormedRange(p.suggestedPriceRange)

\* C16: the description analysis of an analysis always has all seven fields,
\* whatever the completion was.
DescriptionAlwaysComplete ==
    \A d \in recs.description : d.fields = DescriptionFields

\* C17: in performRealAnalysis the three recommendation branches are started
\* together (none finishes before all were called), the diff engine and the
\* writes to the store come only after all three have finished, and the
\* analysis and the alerts are those of the inputs and of each branch's own
\* result, in whatever order the branches completed.
AllBranchesFinished ==
    recs.pricing # {} /\ recs.feature # {} /\ recs.description # {}

BranchesStartTogether ==
    recs.pc = "start" =>
        recs.pricing = {} /\ recs.feature = {} /\ recs.description = {}

DiffOnlyAfterJoin ==
    \/ req["r1"].pc = "recommend"
    \/ recs.pc = "joined" /\ AllBranchesFinished

StoreUntouchedBeforeJoin ==
    recs.pc # "joined" =>
        /\ alerts = {}
        /\ tracking = {}
        /\ \A d \in analyses : d.analyzedAt = 0

AnalysisIsOfBranches ==
    recs.pc = "joined" =>
        \A a \in recs.analysis :
            /\ a.competitors = recs.competitors
            /\ a.pricingRecommendations = recs.pricing
            /\ a.featureAnalysis =
                   {FeatureAnalysis(recs.userAmenities, recs.competitors)}
            /\ a.descriptionAnalysis = recs.description
            /\ \A d \in a.descriptionAnalysis :
                   d.source = "no competitor descriptions"
                       <=> recs.longDescriptions = 0

AlertsAreOfInputs ==
    req["r1"].pc \in {"track", "upsertFind", "upsertWrite"} =>
        \A prevAnalysis \in analyses :
            LET new == GenerateAlerts("L1", prevAnalysis,
                                      Analysis("L1", recs.competitors, 1))
            IN  alerts = {StoredAlert(1 + i, new[i], 2) : i \in 1..Len(new)}

FanOutFanIn ==
    /\ BranchesStartTogether
    /\ DiffOnlyAfterJoin
    /\ StoreUntouchedBeforeJoin
    /\ AnalysisIsOfBranches
    /\ AlertsAreOfInputs

\* The description branch finished before the pricing branch, and the run
\* went on to raise alerts and save.
FanOutFanInWitness ==
    /\ recs.pc = "joined"
    /\ recs.order = <<"description", "pricing">>
    /\ alerts # {}
    /\ req["r1"].pc = "idle"
    /\ \E d \in analyses : d.analyzedAt = 1

---------------------------------------------------------------------------
(* Properties of the 6-hourly job (checked under SpecCron) *)

\* C19 (as claimed): the scheduled job takes up the next due listing only
\* when the pacing delay has passed since the listing before it, whether the
\* update of that listing succeeded or failed.
ScheduledListingsArePaced ==
    [][/\ req'[Cron].pc = "perform"
       /\ req[Cron].pc # "idle"
       /\ req'[Cron].listingId # req[Cron].listingId
       => req[Cron].pc = "delay"]_vars

\* C20 (as claimed): when the scheduled job has updated a due listing, the
\* stored snapshot of that listing holds the competitors and the market
\* average of the new analysis, and its nextUpdateDue lies in the future.
ScheduledUpdateIsStored ==
    req[Cron].pc = "delay" =>
        \A d \in Matching(req[Cron].listingId) :
            /\ d.competitors = TheAnalysis(Cron).competitors
            /\ d.averagePrice = TheAnalysis(Cron).averagePrice
            /\ d.nextUpdateDue > now

---------------------------------------------------------------------------
(* Properties of calculateRealMarketMetrics (checked under SpecMetrics) *)

\* the number of competitors of the list that offer amenity a
Offering(comps, a) ==
    Cardinality({i \in 1..Len(comps) : Occurrences(comps[i].amenities, a) > 0})

\* C21 (as claimed): for a non-empty competitor list the metrics give the
\* number of competitors, the rounded mean of the prices, the least and the
\* greatest price and, for every amenity, the rounded percentage of the
\* competitors that offer it, between 0 and 100; a second evaluation on the
\* same list gives the same.
MetricsMatchHandComputed ==
    /\ \A m \in metrics.first :
          LET comps == metrics.competitors
          IN  /\ m.totalCompetitorsAnalyzed = Len(comps)
              /\ IsRounded(m.averagePrice, SumPrices(comps), 100 * Len(comps))
              /\ \A i \in 1..Len(comps) :
                    m.priceRange.min <= comps[i].price
                        /\ comps[i].price <= m.priceRange.max
              /\ \E i, j \in 1..Len(comps) :
                    m.priceRange.min = comps[i].price
                        /\ m.priceRange.max = comps[j].price
              /\ \A e \in m.mostCommonAmenities :
                    /\ IsRounded(e.percentage, 100 * Offering(comps, e.amenity),
                                 Len(comps))
                    /\ 0 <= e.percentage /\ e.percentage <= 100
    /\ metrics.pc = "twice" => metrics.second = metrics.first

\* C30 (as claimed): the averageRating of a non-empty competitor list is a
\* number from 0 to 5, also when no competitor has a rating above 0.
AverageRatingIsDefined ==
    \A m \in metrics.first \cup metrics.second :
        /\ m.averageRating # {}
        /\ m.averageRating \subseteq 0..50

---------------------------------------------------------------------------
(* The cache of POST /api/analyze (checked under Spec) *)

\* the stored snapshots of listing l analysed less than 6 hours ago
AnalysedRecently(l) ==
    {d \in analyses : d.listingId = l /\ now - d.analyzedAt < CacheHours}

StoreUnchanged ==
    /\ analyses' = analyses
    /\ alerts' = alerts
    /\ tracking' = tracking

\* C22: a POST /api/analyze for a listing whose stored snapshot was analysed
\* less than 6 hours ago is answered with that snapshot and fromCache true;
\* from its arrival to its answer no performRealAnalysis and no
\* initializeMCP is called, and snapshots, alerts and tracking stay as they
\* are.
CacheHitServesStored ==
    [][\A p \in Requests :
          /\ /\ req[p].pc = "idle"
             /\ req'[p].op = "analyze"
             /\ AnalysedRecently(req'[p].listingId) # {}
             => /\ req'[p].pc = "cached"
                /\ req'[p].status = 200
                /\ req'[p].details = "fromCache"
                /\ \E d \in AnalysedRecently(req'[p].listingId) :
                       req'[p].matched = {d._id}
                /\ StoreUnchanged
                /\ started' = started
                /\ isConnected' = isConnected
          /\ req[p].pc = "cached" /\ req'[p] # req[p]
             => /\ req'[p] = Idle
                /\ StoreUnchanged
                /\ started' = started
                /\ isConnected' = isConnected
      ]_vars

CacheHitWitness ==
    \E p \in Requests :
        /\ req[p].pc = "cached"
        /\ req[p].listingId = "L1"
        /\ \E d \in analyses : req[p].matched = {d._id} /\ d.listingId = "L1"
        /\ \E d \in analyses : d.listingId = "L2"

---------------------------------------------------------------------------
(* Properties of mark-read (checked under SpecMark) *)

\* C23: a mark-read request sets isRead on exactly the alerts whose id is in
\* alertIds and whose listingId is the listing of the path; every other
\* alert, also one of another listing whose id is in alertIds, stays as it
\* is; modifiedCount is the number of alerts that went from unread to read.
MarkReadExactlyListed ==
    [][mark' # mark \/ alerts' # alerts =>
          /\ Cardinality(alerts') = Cardinality(alerts)
          /\ \A a \in alerts :
                IF a.listingId = mark'.listingId /\ a._id \in mark'.alertIds
                THEN [a EXCEPT !.isRead = TRUE] \in alerts'
                ELSE a \in alerts'
          /\ mark'.modifiedCount =
                Cardinality({a \in alerts :
                                /\ ~a.isRead
                                /\ \E b \in alerts' :
                                       b._id = a._id /\ b.isRead})
      ]_vars

\* A request for L1 that lists a read and an unread alert of L1, an unread
\* alert of L2 and an id of no alert: one alert changed, that of L2 did not.
MarkReadWitness ==
    /\ mark.listingId = "L1"
    /\ mark.alertIds = {1, 2, 3, 9}
    /\ mark.modifiedCount = 1
    /\ \A a \in alerts : a.isRead <=> a._id \in {1, 2}

---------------------------------------------------------------------------
(* The result of findRealCompetitors (checked under SpecFind) *)

\* C24: whatever the provider does, the competitors collected have pairwise
\* distinct ids, none is the user's own listing and each has a price above
\* 0; when findRealCompetitors returns there are between 1 and 8 of them,
\* and it throws exactly when it collected none.
FindReturnsValidCompetitors ==
    /\ \A i, j \in 1..Len(find.competitors) :
          /\ find.competitors[i].id # OwnId
          /\ find.competitors[i].price > 0
          /\ i # j => find.competitors[i].id # find.competitors[j].id
    /\ find.pc = "done" =>
          1 <= Len(find.competitors) /\ Len(find.competitors) <= maxCompetitors
    /\ find.pc = "failed" => find.competitors = <<>>

\* It returned three competitors after three searches, the last two of
\* which listed the user's own listing and competitors it already had.
FindReturnsWitness ==
    /\ find.pc = "done"
    /\ find.searches = maxAttempts
    /\ {find.competitors[i].id : i \in 1..Len(find.competitors)}
           = {"k1", "k2", "k3"}

---------------------------------------------------------------------------
(* Properties of the daily cleanup (checked under SpecCleanup) *)

\* the requests whose diff engine has appended an entry for competitor id
AppendedFor(id) ==
    {p \in Requests :
        /\ req[p].pc = "upsertFind"
        /\ id \in Ids(TheAnalysis(p).competitors)}

\* the entries of a history that a diff engine appended since the start
AppendedKept(h) == {i \in 1..Len(h) : h[i].date >= CleanupStart}

CleanupKeepsRecent ==
    \A d \in tracking :
        /\ Len(d.priceHistory) <= HistoryKeep
        /\ Cardinality(AppendedKept(d.priceHistory))
               = Cardinality(AppendedFor(d.competitorId))

\* C25 (as claimed): when the cleanup ends, however the appends of the diff
\* engine fell between its steps, every tracking record holds at most 100
\* price entries and none of the entries appended meanwhile is missing.
CleanupBoundsHistories ==
    [][cleanup.pc = "loop" /\ cleanup'.pc = "done" => CleanupKeepsRecent']_vars

---------------------------------------------------------------------------
(* The MCP connection at the entry points (checked under Spec) *)

\* C26 (as claimed): whichever entry point runs a fresh analysis (analyze on
\* a cache miss, refresh, the scheduled update), performRealAnalysis is
\* called only with the MCP connection established.
AnalysisRunsConnected ==
    [][\A p \in Procs :
          req[p].pc = "perform" /\ req'[p] # req[p] => isConnected]_vars

---------------------------------------------------------------------------
(* Properties of initializeMCP (checked under SpecMcp) *)

\* C29 (as claimed): at most one initializeMCP is in progress, at most one
\* connected client with its server process exists, and isConnected = true
\* implies that mcpClient is set.
OneMcpInitialisation ==
    /\ Cardinality(mcp.calls) <= 1
    /\ mcp.pairs <= 1
    /\ isConnected => mcp.mcpClient # {}

---------------------------------------------------------------------------
(* Repeated alerts (checked under SpecCron, where two scheduled updates of  *)
(* a listing fit in a behaviour)                                            *)

SameChange(a, b) ==
    /\ a.listingId = b.listingId
    /\ a.type = b.type
    /\ a.competitorId = b.competitorId
    /\ a.oldValue = b.oldValue
    /\ a.newValue = b.newValue
    /\ a.addedAmenities = b.addedAmenities

\* C27 (as claimed): a change (a competitor of a listing going from one value
\* to another, or a change of the market average) is alerted at most once: no
\* two stored alerts are about the same change.
ChangeAlertedOnce ==
    \A a, b \in alerts : SameChange(a, b) => a._id = b._id

\* C28 (as claimed): an analyze or refresh request that answers 500 because a
\* storage operation failed leaves the persisted alerts and the competitor
\* history as they were before the request (here: both empty).
StorageFailureLeavesStore ==
    \A p \in Requests :
        req[p].pc = "respond" /\ req[p].status = 500
        /\ req[p].details = StorageMessage
        => alerts = {} /\ tracking = {}

====
